---- MODULE Spec2Model ----
(***************************************************************************)
(* Model of the proof-of-work ledger (src/lib/blockchain.rs) and of its    *)
(* consensus routine (src/lib/consensus.rs).                               *)
(*                                                                         *)
(* Representation of strings.  A String of the program is represented by   *)
(* an integer that keeps its identity and its order:                       *)
(*   - a hex digest of HashLen characters is the number it denotes in base *)
(*     16 (0 .. HashSpace-1); the lexicographic order of equal-length      *)
(*     lower-case hex strings is the order of these numbers;               *)
(*   - the genesis message "Genesis block." is GenesisMessage; 'G' sorts   *)
(*     after the digits and before 'a'..'f' (StrKey);                      *)
(*   - the two proofs written one after the other in decimal are the       *)
(*     number with these decimal digits (format_guess).                    *)
(***************************************************************************)
EXTENDS Integers, Sequences, FiniteSets, TLC

\* ------------------------------------------------------------------ bounds
MaxChain == 3        \* chains (local and fetched) hold at most MaxChain blocks
MaxTime == 1         \* Utc::now().timestamp() ranges over 0 .. MaxTime
MaxDifficulty == 1   \* new_with(difficulty) is called with 0 .. MaxDifficulty
HashLen == 6         \* number of hex characters of a digest
ProofCap == 1000     \* the proof search is followed for proofs 0 .. ProofCap
MaxLastProof == 30   \* proof_of_work is called alone with last_proof 0 .. MaxLastProof

\* -------------------------------------------------------- program constants
GenesisProof == 100  \* new_with: new_block(100, "Genesis block.")
GenesisMessage == -1 \* the string "Genesis block."

RECURSIVE Pow(_, _)
Pow(b, e) == IF e = 0 THEN 1 ELSE b * Pow(b, e - 1)

HashSpace == Pow(16, HashLen)

\* ------------------------------------------------------------ transactions
\* Transaction::new(sender, recipient, amount); equality and order are by value.
MiningReward == [sender |-> "0", recipient |-> "my node address", amount |-> 1]
TxnA == [sender |-> "a", recipient |-> "b", amount |-> 100]

\* what callers submit: a transfer, and a transfer equal to the reward
UserTxns == {TxnA, MiningReward}

\* rank of the strings in use under String's Ord ("0" < "a" < "b" < "m...")
StrRank(s) ==
    CASE s = "0" -> 0
      [] s = "a" -> 1
      [] s = "b" -> 2
      [] OTHER -> 3

\* #[derive(Ord)] on Transaction: sender, then recipient, then amount
TxnLess(x, y) ==
    \/ StrRank(x.sender) < StrRank(y.sender)
    \/ /\ x.sender = y.sender
       /\ \/ StrRank(x.recipient) < StrRank(y.recipient)
          \/ x.recipient = y.recipient /\ x.amount < y.amount

TxnMin(S) == CHOOSE x \in S : \A y \in S \ {x} : TxnLess(x, y)

\* Ord of BTreeSet<Transaction>: lexicographic over the ascending iteration
RECURSIVE TxnSetLess(_, _)
TxnSetLess(A, B) ==
    IF B = {} THEN FALSE
    ELSE IF A = {} THEN TRUE
    ELSE LET a == TxnMin(A)
             b == TxnMin(B)
         IN  IF TxnLess(a, b) THEN TRUE
             ELSE IF TxnLess(b, a) THEN FALSE
             ELSE TxnSetLess(A \ {a}, B \ {b})

\* ------------------------------------------------------------------ blocks
\* order of two strings that are a digest or the genesis message
StrKey(h) == IF h = GenesisMessage THEN 20 * Pow(16, HashLen - 1) - 1 ELSE 2 * h

\* #[derive(Ord)] on Block: index, timestamp, proof, previous_hash, transactions
BlockLess(x, y) ==
    \/ x.index < y.index
    \/ /\ x.index = y.index
       /\ \/ x.timestamp < y.timestamp
          \/ /\ x.timestamp = y.timestamp
             /\ \/ x.proof < y.proof
                \/ /\ x.proof = y.proof
                   /\ \/ StrKey(x.previous_hash) < StrKey(y.previous_hash)
                      \/ /\ x.previous_hash = y.previous_hash
                         /\ TxnSetLess(x.transactions, y.transactions)

\* iteration of a BTreeSet<Block>: ascending
RECURSIVE ChainSeq(_)
ChainSeq(c) ==
    IF c = {} THEN <<>>
    ELSE LET m == CHOOSE x \in c : \A y \in c \ {x} : BlockLess(x, y)
         IN  <<m>> \o ChainSeq(c \ {m})

\* ------------------------------------------------------------------ hasher
\* A text is the sequence of the numbers it is made of.  The digest runs two
\* polynomial lanes over the text, scrambles each and keeps the HashLen low hex
\* characters of the two put side by side.
RECURSIVE hash_lane(_, _, _, _, _, _)
hash_lane(text, i, h, mult, salt, prime) ==
    IF i > Len(text) THEN h
    ELSE hash_lane(text, i + 1, (h * mult + text[i] + salt) % prime, mult, salt, prime)

\* the digest of a text: HashLen hex characters
hash_string(text) ==
    LET h1 == hash_lane(text, 1, 22, 257, 1, 32749)
        h2 == hash_lane(text, 1, 3, 263, 5, 32719)
        f1 == (h1 * h1 + 7 * h1 + 11) % 32749
        f2 == (h2 * h2 + 3 * h2 + 101) % 32719
    IN  (f1 * 32768 + f2) % HashSpace

\* the transactions of a block, in ascending order, field by field
RECURSIVE TxnSetText(_)
TxnSetText(S) ==
    IF S = {} THEN <<>>
    ELSE LET t == TxnMin(S)
         IN  <<StrRank(t.sender), StrRank(t.recipient), t.amount>> \o TxnSetText(S \ {t})

\* the canonical encoding of a block: every field, in the fixed field order
serialize(block) ==
    <<block.index, block.timestamp, block.proof, block.previous_hash + 1>>
        \o TxnSetText(block.transactions)

\* hasher::hash(block), when it answers Ok
hash(block) == hash_string(serialize(block))

\* the outcomes of hasher::hash: Ok(digest) or Err(message)
HashOutcomes == {"Ok", "Err"}

\* ------------------------------------------------------------------- state
VARIABLES
    chain,                 \* Blockchain.chain: BTreeSet<Block>
    current_transactions,  \* Blockchain.current_transactions: BTreeSet<Transaction>
    nodes,                 \* Blockchain.nodes: HashSet<Url>
    difficulty,            \* Blockchain.difficulty
    pc,                    \* the caller: "idle", "returned" from a call whose record
                           \* is in `last`, or "panicked" once an expect() has failed
    last,                  \* the call just made: name, argument, result, pre-state
    submitted,             \* the transactions handed to new_transaction by callers
                           \* since the last block was created
    mines,                 \* number of completed mine calls
    adopted                \* whether resolve_conflicts has replaced the chain

vars == <<chain, current_transactions, nodes, difficulty, pc, last, submitted,
          mines, adopted>>

Urls == {"http://u1", "http://u2"}
Timestamps == 0 .. MaxTime
Difficulties == 0 .. MaxDifficulty

\* --------------------------------------------------------------- proof of work
\* format!("{}{}", last_proof, proof): the two decimal texts one after the other
RECURSIVE DecimalShift(_)
DecimalShift(n) == IF n < 10 THEN 10 ELSE 10 * DecimalShift(n \div 10)

format_guess(last_proof, proof) == last_proof * DecimalShift(proof) + proof

\* guess_hash.starts_with("0".repeat(difficulty))
starts_with_zeros(digest, d) ==
    /\ d <= HashLen
    /\ digest < Pow(16, HashLen - d)

valid_proof(last_proof, proof, d) ==
    starts_with_zeros(hash_string(<<format_guess(last_proof, proof)>>), d)

\* a slip: the proof is stepped before it is tested
RECURSIVE proof_run_steps_first(_, _, _, _)
proof_run_steps_first(last_proof, proof, stop, d) ==
    IF proof + 1 > stop THEN stop + 1
    ELSE IF valid_proof(last_proof, proof + 1, d) THEN proof + 1
    ELSE proof_run_steps_first(last_proof, proof + 1, stop, d)

\* the while loop of proof_of_work over the proofs `proof` .. `stop`: the first
\* that is valid, or stop + 1
RECURSIVE proof_run(_, _, _, _)
proof_run(last_proof, proof, stop, d) ==
    IF proof > stop THEN stop + 1
    ELSE IF valid_proof(last_proof, proof, d) THEN proof
    ELSE proof_run(last_proof, proof + 1, stop, d)

\* the while loop of proof_of_work, from `proof` on, taken in runs of 32 proofs
\* (which keeps the evaluation shallow); ProofCap + 1 stands for a search that
\* has not ended within the proofs followed
RECURSIVE proof_search(_, _, _)
proof_search(last_proof, proof, d) ==
    IF proof > ProofCap THEN ProofCap + 1
    ELSE LET stop == IF proof + 31 < ProofCap THEN proof + 31 ELSE ProofCap
             found == proof_run(last_proof, proof, stop, d)
         IN  IF found <= stop THEN found
             ELSE proof_search(last_proof, stop + 1, d)

proof_of_work(last_proof, d) == proof_search(last_proof, 0, d)

\* ------------------------------------------------------------------ ledger
last_block(c) == CHOOSE x \in c : \A y \in c \ {x} : BlockLess(y, x)

new_block_proof(c, d) == proof_of_work(last_block(c).proof, d)

\* a slip: the first block of the chain is hashed
hash_last_block_of_first(c) == hash(ChainSeq(c)[1])

hash_last_block(c) == hash(last_block(c))

\* a slip: the buffer is overwritten
new_transaction_buffer_only(buffer, txn) == {txn}

\* new_transaction: the buffer afterwards, and the value returned
new_transaction_buffer(buffer, txn) == buffer \cup {txn}

new_transaction_result(c) == last_block(c).index + 1

\* create_block: the buffer is moved into the block
create_block(c, buffer, proof, previous_hash, now) ==
    [index |-> Cardinality(c) + 1,
     timestamp |-> now,
     proof |-> proof,
     previous_hash |-> previous_hash,
     transactions |-> buffer]

\* a slip: the buffer is copied into the block and not drained
create_block_buffer_kept(buffer) == buffer

\* what create_block leaves in current_transactions
create_block_buffer(buffer) == {}

\* new_block: the chain after the insert, and the block whose reference is returned
new_block_chain(c, block) == c \cup {block}

new_block_result(c, block) == last_block(new_block_chain(c, block))

\* mine: the buffer once the reward is in; the proof and previous hash of the block
mine_buffer(buffer) == new_transaction_buffer(buffer, MiningReward)

mine_block(c, buffer, d, now) ==
    create_block(c, mine_buffer(buffer), new_block_proof(c, d), hash_last_block(c), now)

\* a slip: the answer of the insert is dropped
register_node_result_always(ns, address) == TRUE

register_node_result(ns, address) == address \notin ns

register_node_nodes(ns, address) == ns \cup {address}

\* (hash answers Ok here; its Err outcome is followed in mine)
check_hash(previous_block, current_block) ==
    current_block.previous_hash = hash(previous_block)

check_proof(previous_block, current_block, d) ==
    valid_proof(previous_block.proof, current_block.proof, d)

\* a slip: the proof of the pair is not looked at
pair_ok_hash_only(previous_block, current_block, d) ==
    check_hash(previous_block, current_block)

\* line 182: the pair passes
pair_ok(previous_block, current_block, d) ==
    ~(~check_hash(previous_block, current_block)
        \/ ~check_proof(previous_block, current_block, d))

\* the for loop of valid_chain over the blocks in order, from position i on
RECURSIVE valid_chain_from(_, _, _)
valid_chain_from(s, i, d) ==
    IF i > Len(s) THEN TRUE
    ELSE IF i > 1 /\ ~pair_ok(s[i - 1], s[i], d) THEN FALSE
    ELSE valid_chain_from(s, i + 1, d)

valid_chain(c, d) == valid_chain_from(ChainSeq(c), 1, d)

Genesis(now) ==
    [index |-> 1, timestamp |-> now, proof |-> GenesisProof,
     previous_hash |-> GenesisMessage, transactions |-> {}]

NoCall == [op |-> "none", arg |-> <<>>, outcome |-> "ok", result |-> <<>>,
           chain |-> {}, buffer |-> {}, nodes |-> {}, submitted |-> {}]

\* the record of a call: what was called with what, how it ended ("ok": it
\* returned `result`; "panic"), and the ledger it was called on
Call(op, arg, outcome, result) ==
    [op |-> op, arg |-> arg, outcome |-> outcome, result |-> result,
     chain |-> chain, buffer |-> current_transactions, nodes |-> nodes,
     submitted |-> submitted]

\* Blockchain::new_with(difficulty); time is counted from this call on
Init ==
    /\ chain = {Genesis(0)}
    /\ current_transactions = {}
    /\ nodes = {}
    /\ difficulty \in Difficulties
    /\ pc = "idle"
    /\ last = NoCall
    /\ submitted = {}
    /\ mines = 0
    /\ adopted = FALSE

\* Blockchain::new_transaction(transaction), called by a client
NewTransaction(txn) ==
    /\ pc = "idle"
    /\ current_transactions' = new_transaction_buffer(current_transactions, txn)
    /\ submitted' = submitted \cup {txn}
    /\ last' = Call("new_transaction", txn, "ok", new_transaction_result(chain))
    /\ pc' = "returned"
    /\ UNCHANGED <<chain, nodes, difficulty, mines, adopted>>

\* Blockchain::mine(): the proof search ends, the reward is buffered, the last
\* block is hashed (expect: an Err panics), the block is created and inserted
Mine(now, outcome) ==
    /\ pc = "idle"
    /\ Cardinality(chain) < MaxChain
    /\ new_block_proof(chain, difficulty) <= ProofCap
    /\ IF outcome = "Err"
       THEN /\ current_transactions' = mine_buffer(current_transactions)
            /\ pc' = "panicked"
            /\ last' = Call("mine", now, "panic", <<>>)
            /\ UNCHANGED <<chain, nodes, difficulty, submitted, mines, adopted>>
       ELSE LET block == mine_block(chain, current_transactions, difficulty, now)
            IN  /\ chain' = new_block_chain(chain, block)
                /\ current_transactions' = create_block_buffer(mine_buffer(current_transactions))
                /\ submitted' = {}
                /\ mines' = mines + 1
                /\ last' = Call("mine", block, "ok", new_block_result(chain, block))
                /\ pc' = "returned"
                /\ UNCHANGED <<nodes, difficulty, adopted>>

\* Blockchain::register_node(address)
RegisterNode(address) ==
    /\ pc = "idle"
    /\ nodes' = register_node_nodes(nodes, address)
    /\ last' = Call("register_node", address, "ok", register_node_result(nodes, address))
    /\ pc' = "returned"
    /\ UNCHANGED <<chain, current_transactions, difficulty, submitted, mines, adopted>>

\* Blockchain::valid_chain(&chain), called by a client on a chain it holds
ValidChain(c) ==
    /\ pc = "idle"
    /\ last' = Call("valid_chain", c, "ok", valid_chain(c, difficulty))
    /\ pc' = "returned"
    /\ UNCHANGED <<chain, current_transactions, nodes, difficulty, submitted,
                   mines, adopted>>

\* --------------------------------------------------------------- the peers
\* What a peer answers.  A response is a failed send ("connect_err"), a failed
\* read of the body ("read_err"), or a body: text that is no JSON chain
\* ("garbage") or the JSON array of the blocks in `blocks` ("json").
Response(kind, blocks) == [kind |-> kind, blocks |-> blocks]

Flavors == {"good", "badproof", "badhash", "gap", "dup"}

\* a proof the validator refuses after last_proof, if there is one among 0 .. 2
bad_proof(last_proof, d) ==
    IF \E p \in 0 .. 2 : ~valid_proof(last_proof, p, d)
    THEN CHOOSE p \in 0 .. 2 : ~valid_proof(last_proof, p, d)
    ELSE 2

\* the block a peer puts after the blocks s: mined as mine does ("good"), with a
\* proof that is no solution, with a previous_hash that is not the hash of the
\* block before, with an index that skips one, or with the index of the block before
PeerBlock(s, flavor, d) ==
    LET prev == s[Len(s)]
        pow == proof_of_work(prev.proof, d)
    IN  [index |-> CASE flavor = "gap" -> Len(s) + 2
                     [] flavor = "dup" -> prev.index
                     [] OTHER -> Len(s) + 1,
         timestamp |-> MaxTime,
         proof |-> IF flavor = "badproof" THEN bad_proof(prev.proof, d)
                   ELSE IF pow > ProofCap THEN 0 ELSE pow,
         previous_hash |-> IF flavor = "badhash" THEN (hash(prev) + 1) % HashSpace
                           ELSE hash(prev),
         transactions |-> {MiningReward}]

\* k blocks put after s, the last of them of the given flavor
RECURSIVE PeerExtend(_, _, _, _)
PeerExtend(s, k, flavor, d) ==
    IF k = 0 THEN s
    ELSE PeerExtend(Append(s, PeerBlock(s, IF k = 1 THEN flavor ELSE "good", d)),
                    k - 1, flavor, d)

\* the first block of a chain that does not share the local history: nothing
\* holds a peer to the genesis block of new_with (here another proof, and a
\* digest as previous_hash)
ForeignFirst ==
    [index |-> 1, timestamp |-> MaxTime, proof |-> 0, previous_hash |-> 0,
     transactions |-> {}]

\* the arrays a peer may send: the empty array, a chain that shares the local
\* history and goes on with blocks of the peer, or a chain mined on a first
\* block of the peer's own
PeerArrays(c, d) ==
    LET foreign == <<ForeignFirst>>
        shapes == {x \in {ChainSeq(c), foreign} \X (0 .. MaxChain - 1) \X Flavors :
                     /\ Len(x[1]) + x[2] <= MaxChain
                     /\ x[3] # "good" => x[2] = 1 /\ x[1] # foreign}
    IN  {<<>>} \cup {PeerExtend(x[1], x[2], x[3], d) : x \in shapes}

Responses(c, d) ==
    {Response("connect_err", <<>>), Response("read_err", <<>>),
     Response("garbage", <<>>)}
        \cup {Response("json", a) : a \in PeerArrays(c, d)}

\* the orders in which a HashSet<Url> may be iterated
Orders(ns) ==
    {o \in [1 .. Cardinality(ns) -> ns] : \A i, j \in DOMAIN o : i # j => o[i] # o[j]}

\* --------------------------------------------------------------- consensus
Range(s) == {s[i] : i \in DOMAIN s}

\* get_neighbour_chains: send or read_to_string fails for some url (expect panics)
fetch_panics(urls, answers) ==
    \E i \in DOMAIN urls : answers[urls[i]].kind \in {"connect_err", "read_err"}

\* get_neighbour_chains: the bodies, in the order of the urls
get_neighbour_chains(urls, answers) == [i \in DOMAIN urls |-> answers[urls[i]]]

\* serde_json::from_str::<Chain>(raw): the array becomes a BTreeSet<Block>
from_str(raw) ==
    IF raw.kind = "json" THEN [ok |-> TRUE, chain |-> Range(raw.blocks)]
    ELSE [ok |-> FALSE, chain |-> {}]

\* deserialize: the for loop over chains_raw, from position i on
RECURSIVE deserialize_from(_, _)
deserialize_from(chains_raw, i) ==
    IF i > Len(chains_raw) THEN <<>>
    ELSE LET r == from_str(chains_raw[i])
         IN  IF r.ok THEN <<r.chain>> \o deserialize_from(chains_raw, i + 1)
             ELSE deserialize_from(chains_raw, i + 1)

\* a slip: the first body that does not parse ends the loop
RECURSIVE deserialize_until_error(_, _)
deserialize_until_error(chains_raw, i) ==
    IF i > Len(chains_raw) \/ ~from_str(chains_raw[i]).ok THEN <<>>
    ELSE <<from_str(chains_raw[i]).chain>> \o deserialize_until_error(chains_raw, i + 1)

deserialize_stops(chains_raw) == deserialize_until_error(chains_raw, 1)

deserialize(chains_raw) == deserialize_from(chains_raw, 1)

\* a slip: the candidate is not validated
takes_over_unvalidated(candidate, max_length, d) ==
    Cardinality(candidate) > max_length

\* a slip: >= for >
takes_over_on_tie(candidate, max_length, d) ==
    Cardinality(candidate) >= max_length /\ valid_chain(candidate, d)

\* a slip: the length of the candidate is not looked at
takes_over_any_valid(candidate, max_length, d) == valid_chain(candidate, d)

\* a slip: < for >
takes_over_shorter(candidate, max_length, d) ==
    Cardinality(candidate) < max_length /\ valid_chain(candidate, d)

\* line 24: the candidate becomes the running best
takes_over(candidate, max_length, d) ==
    Cardinality(candidate) > max_length /\ valid_chain(candidate, d)

\* the for loop of resolve_conflicts over neighbour_chains, from position i on;
\* new_chain is Option<Chain>
RECURSIVE resolve_scan(_, _, _, _, _)
resolve_scan(neighbour_chains, i, max_length, new_chain, d) ==
    IF i > Len(neighbour_chains) THEN new_chain
    ELSE IF takes_over(neighbour_chains[i], max_length, d)
         THEN resolve_scan(neighbour_chains, i + 1, Cardinality(neighbour_chains[i]),
                           [some |-> TRUE, chain |-> neighbour_chains[i]], d)
         ELSE resolve_scan(neighbour_chains, i + 1, max_length, new_chain, d)

\* Blockchain::replace(new_chain)
replace(c, new_chain) == new_chain

\* a slip: the transactions of the new chain are taken out of the buffer
replace_buffer_reconciled(buffer, new_chain) ==
    buffer \ UNION {block.transactions : block \in new_chain}

\* what replace leaves in current_transactions
replace_buffer(buffer, new_chain) == buffer

\* Consensus::resolve_conflicts(blockchain); the peers answer `answers` and
\* blockchain.nodes() is iterated in the order `urls`
ResolveConflicts(urls, answers) ==
    /\ pc = "idle"
    /\ IF fetch_panics(urls, answers)
       THEN /\ pc' = "panicked"
            /\ last' = Call("resolve_conflicts", get_neighbour_chains(urls, answers),
                            "panic", <<>>)
            /\ UNCHANGED <<chain, current_transactions, adopted>>
       ELSE LET new_chain == resolve_scan(deserialize(get_neighbour_chains(urls, answers)),
                                          1, Cardinality(chain),
                                          [some |-> FALSE, chain |-> {}], difficulty)
            IN  /\ chain' = IF new_chain.some THEN replace(chain, new_chain.chain) ELSE chain
                /\ current_transactions' =
                      IF new_chain.some
                      THEN replace_buffer(current_transactions, new_chain.chain)
                      ELSE current_transactions
                /\ adopted' = (adopted \/ new_chain.some)
                /\ last' = Call("resolve_conflicts", get_neighbour_chains(urls, answers),
                                "ok", new_chain.some)
                /\ pc' = "returned"
    /\ UNCHANGED <<nodes, difficulty, submitted, mines>>

\* the caller takes the result and is ready for its next call
Continue ==
    /\ pc = "returned"
    /\ pc' = "idle"
    /\ last' = NoCall
    /\ UNCHANGED <<chain, current_transactions, nodes, difficulty, submitted, mines,
                   adopted>>

Next ==
    \/ \E txn \in UserTxns : NewTransaction(txn)
    \/ \E now \in Timestamps, outcome \in HashOutcomes : Mine(now, outcome)
    \/ \E address \in Urls : RegisterNode(address)
    \/ \E c \in {chain} \cup {Range(a) : a \in PeerArrays(chain, difficulty)} : ValidChain(c)
    \/ \E urls \in Orders(nodes) :
         \E answers \in [nodes -> Responses(chain, difficulty)] :
            ResolveConflicts(urls, answers)
    \/ Continue

Spec == Init /\ [][Next]_vars

\* ------------------------------------------------- the proof search, alone
\* Blockchain::proof_of_work(last_proof, difficulty) followed through its loop.
\* `last` is the call: arg is last_proof, result is the local `proof` (the value
\* returned once the outcome is "ok"), and `difficulty` is the second argument.
\* The u64 `proof` has the range 0 .. ProofCap here.
LastProofs == 0 .. MaxLastProof

\* the difficulties of the ledger, and one that asks for more '0' characters than
\* a digest has
PowDifficulties == (0 .. MaxDifficulty) \cup {HashLen + 1}

\* the first proof that the next step of the search does not look at
run_stop(proof) == IF proof + 31 < ProofCap THEN proof + 31 ELSE ProofCap

\* the call is entered (let mut proof = 0); the searches taken are those the
\* range of `proof` shows the end of: a solution within it, or no digest at all
\* with the prefix asked for
PowInit ==
    /\ chain = {Genesis(0)}
    /\ current_transactions = {}
    /\ nodes = {}
    /\ difficulty \in PowDifficulties
    /\ pc = "searching"
    /\ \E last_proof \in LastProofs :
          /\ proof_of_work(last_proof, difficulty) <= ProofCap \/ difficulty > HashLen
          /\ last = [NoCall EXCEPT !.op = "proof_of_work", !.arg = last_proof,
                                   !.outcome = "running", !.result = 0]
    /\ submitted = {}
    /\ mines = 0
    /\ adopted = FALSE

\* the loop goes through its next proofs: it returns the first valid one, or goes on
ProofRun ==
    /\ pc = "searching"
    /\ LET stop == run_stop(last.result)
           found == proof_run(last.arg, last.result, stop, difficulty)
       IN  IF found <= stop
           THEN /\ last' = [last EXCEPT !.outcome = "ok", !.result = found]
                /\ pc' = "returned"
           ELSE /\ stop < ProofCap
                /\ last' = [last EXCEPT !.result = stop + 1]
                /\ pc' = pc
    /\ UNCHANGED <<chain, current_transactions, nodes, difficulty, submitted, mines,
                   adopted>>

\* proof += 1 at the greatest u64: a build with overflow checks panics, one
\* without wraps to 0
ProofOverflow(build) ==
    /\ pc = "searching"
    /\ run_stop(last.result) = ProofCap
    /\ proof_run(last.arg, last.result, ProofCap, difficulty) > ProofCap
    /\ IF build = "debug"
       THEN /\ last' = [last EXCEPT !.outcome = "panic"]
            /\ pc' = "panicked"
       ELSE /\ last' = [last EXCEPT !.result = 0]
            /\ pc' = pc
    /\ UNCHANGED <<chain, current_transactions, nodes, difficulty, submitted, mines,
                   adopted>>

PowNext ==
    \/ ProofRun
    \/ \E build \in {"debug", "release"} : ProofOverflow(build)

\* the thread that runs the loop keeps running
PowSpec == PowInit /\ [][PowNext]_vars /\ WF_vars(PowNext)

\* ------------------------------------------------------------------ claims
IsResolve == last.op = "resolve_conflicts"
Returned == last.outcome = "ok"

FetchFailed(r) == r.kind \in {"connect_err", "read_err"}

\* the chains of the bodies that are JSON arrays, in the order of the scan
IsJson(r) == r.kind = "json"
Candidates == [i \in DOMAIN SelectSeq(last.arg, IsJson) |->
                  Range(SelectSeq(last.arg, IsJson)[i].blocks)]

\* candidate i is valid and strictly longer than the chain the call started with
Eligible(i) ==
    /\ Cardinality(Candidates[i]) > Cardinality(last.chain)
    /\ valid_chain(Candidates[i], difficulty)

\* candidate i is the first of the longest eligible candidates
FirstLongest(i) ==
    /\ Eligible(i)
    /\ \A j \in DOMAIN Candidates :
          Eligible(j) =>
             \/ Cardinality(Candidates[j]) < Cardinality(Candidates[i])
             \/ Cardinality(Candidates[j]) = Cardinality(Candidates[i]) /\ i <= j

\* y follows x immediately in the order of the chain c
Adjacent(c, x, y) ==
    /\ BlockLess(x, y)
    /\ ~\E z \in c : BlockLess(x, z) /\ BlockLess(z, y)

HashLinked(x, y) == y.previous_hash = hash(x)
ProofLinked(x, y) == valid_proof(x.proof, y.proof, difficulty)

\* C1: when resolve_conflicts has replaced the chain, the new chain is one of the
\* fetched candidates, strictly longer than the chain at the start of the call
\* and accepted by valid_chain at the ledger's difficulty.
C1_ReplacedOnlyByLongerValid ==
    (IsResolve /\ Returned /\ (last.result \/ chain # last.chain)) =>
        /\ \E i \in DOMAIN Candidates : Candidates[i] = chain
        /\ Cardinality(chain) > Cardinality(last.chain)
        /\ valid_chain(chain, difficulty)

\* a longer invalid candidate and a valid candidate that is not longer were
\* fetched, and the chain was kept
C1_Witness ==
    /\ IsResolve /\ Returned /\ ~last.result
    /\ \E i, j \in DOMAIN Candidates :
          /\ Cardinality(Candidates[i]) > Cardinality(last.chain)
          /\ ~valid_chain(Candidates[i], difficulty)
          /\ Cardinality(Candidates[j]) <= Cardinality(last.chain)
          /\ valid_chain(Candidates[j], difficulty)
    /\ chain = last.chain

\* C2: resolve_conflicts returns true exactly when some candidate is valid and
\* strictly longer; the chain is then the first candidate of the greatest length
\* among these; when it returns false the chain is the one before the call.
C2_ReturnsTrueIffBestExists ==
    (IsResolve /\ Returned) =>
        /\ last.result = (\E i \in DOMAIN Candidates : Eligible(i))
        /\ last.result => \E i \in DOMAIN Candidates : FirstLongest(i) /\ chain = Candidates[i]
        /\ ~last.result => chain = last.chain

\* two different eligible candidates of the same greatest length: the earlier won
C2_Witness ==
    /\ IsResolve /\ Returned /\ last.result
    /\ \E i, j \in DOMAIN Candidates :
          /\ i < j /\ FirstLongest(i) /\ Eligible(j)
          /\ Cardinality(Candidates[j]) = Cardinality(Candidates[i])
          /\ Candidates[j] # Candidates[i]
          /\ chain = Candidates[i]

\* C3: a failed fetch only skips its peer: resolve_conflicts still returns, true
\* exactly when a peer that answered offers a valid strictly longer chain, which
\* is then adopted.
C3_FetchFailureSkipsPeer ==
    (IsResolve /\ \E i \in DOMAIN last.arg : FetchFailed(last.arg[i])) =>
        /\ Returned
        /\ last.result = (\E i \in DOMAIN Candidates : Eligible(i))
        /\ last.result => \E i \in DOMAIN Candidates : Eligible(i) /\ chain = Candidates[i]

\* C4: a body that does not parse only takes its peer out of the candidates: the
\* call returns, with the result and the chain it has when these bodies are left
\* out of the answers, and the chain afterwards is the old one or a parsed one.
C4_MalformedBodySkipsPeer ==
    (IsResolve /\ \A i \in DOMAIN last.arg : ~FetchFailed(last.arg[i])) =>
        LET parsed == deserialize(SelectSeq(last.arg, IsJson))
            best == resolve_scan(parsed, 1, Cardinality(last.chain),
                                 [some |-> FALSE, chain |-> {}], difficulty)
        IN  /\ Returned
            /\ last.result = best.some
            /\ chain = IF best.some THEN best.chain ELSE last.chain
            /\ chain = last.chain \/ \E i \in DOMAIN Candidates : chain = Candidates[i]

\* the first peer scanned sent garbage, and the chain of a later one was adopted
C4_Witness ==
    /\ IsResolve /\ Returned /\ last.result
    /\ Len(last.arg) >= 2
    /\ last.arg[1].kind = "garbage"
    /\ chain # last.chain

\* C5: after a mine that returns, the buffer is empty and the transactions of the
\* created block are those submitted since the last block was created, plus the
\* reward transaction.
C5_MinedBlockHoldsSubmitted ==
    (last.op = "mine" /\ Returned) =>
        /\ current_transactions = {}
        /\ last.arg \in chain
        /\ last.arg.transactions = last.submitted \cup {MiningReward}

\* a second block: TxnA went into an earlier block and is not in the new one
C5_Witness ==
    /\ last.op = "mine" /\ Returned
    /\ \E b \in last.chain : TxnA \in b.transactions
    /\ TxnA \notin last.arg.transactions
    /\ current_transactions = {}

\* C6: mine appends a block, or, when hashing the last block fails, leaves the
\* chain, the buffer and the peer set as they were before the call.
C6_MineAllOrNothing ==
    (last.op = "mine") =>
        \/ Returned /\ chain = last.chain \cup {last.arg} /\ current_transactions = {}
        \/ /\ ~Returned
           /\ chain = last.chain
           /\ current_transactions = last.buffer
           /\ nodes = last.nodes

\* C7: valid_chain(candidate) is true exactly when every pair of blocks adjacent
\* in the order of the chain is hash-linked and proof-linked at the difficulty.
C7_ValidChainIffAllPairsLinked ==
    (last.op = "valid_chain") =>
        last.result = (\A x, y \in last.arg :
                          Adjacent(last.arg, x, y) => HashLinked(x, y) /\ ProofLinked(x, y))

\* a chain whose pairs are all hash-linked is refused for a proof
C7_Witness ==
    /\ last.op = "valid_chain"
    /\ ~last.result
    /\ \A x, y \in last.arg : Adjacent(last.arg, x, y) => HashLinked(x, y)
    /\ \E x, y \in last.arg : Adjacent(last.arg, x, y) /\ ~ProofLinked(x, y)

\* C8: while the chain has only been extended by mine, it holds the genesis block
\* and one block for each mine that returned, and valid_chain accepts it.
C8_MinedChainIsValid ==
    ~adopted =>
        /\ Cardinality(chain) = 1 + mines
        /\ valid_chain(chain, difficulty)

\* two mines, at a difficulty where not every proof is a solution
C8_Witness ==
    /\ ~adopted /\ mines = 2 /\ last.op = "mine" /\ Returned
    /\ difficulty > 0
    /\ valid_chain(chain, difficulty)

\* C9: the value new_transaction returns is the index create_block gives the
\* next block.
C9_ReturnsIndexOfNextBlock ==
    (last.op = "new_transaction") =>
        last.result = create_block(chain, current_transactions, 0, 0, 0).index

\* C10: register_node returns true and adds the address when it was absent,
\* returns false and leaves the peer set when it was present; the chain and the
\* buffer are unchanged.
C10_RegisterNodeIsSetInsert ==
    (last.op = "register_node") =>
        /\ last.result = (last.arg \notin last.nodes)
        /\ nodes = last.nodes \cup {last.arg}
        /\ ~last.result => nodes = last.nodes
        /\ Cardinality(nodes) = Cardinality(last.nodes) + (IF last.result THEN 1 ELSE 0)
        /\ chain = last.chain
        /\ current_transactions = last.buffer

\* the address was registered already
C10_Witness ==
    /\ last.op = "register_node"
    /\ ~last.result
    /\ last.arg \in last.nodes
    /\ nodes = last.nodes

\* C11: when proof_of_work returns, the proof it returns is valid after
\* last_proof at the difficulty, and no smaller proof is.
C11_ReturnsLeastValidProof ==
    (last.op = "proof_of_work" /\ Returned) =>
        /\ valid_proof(last.arg, last.result, difficulty)
        /\ \A proof \in 0 .. last.result - 1 : ~valid_proof(last.arg, proof, difficulty)

\* a search that has refused proofs before it returned
C11_Witness ==
    /\ last.op = "proof_of_work" /\ Returned
    /\ difficulty > 0
    /\ last.result > 1
    /\ ~valid_proof(last.arg, 0, difficulty)

\* C12: whatever the difficulty and last_proof, the search of proof_of_work ends
\* and the call returns.
C12_SearchReturns == <>(pc = "returned")

\* C13: the chain is never empty: it holds at least one block in every state
\* reached by new_transaction, mine, register_node and resolve_conflicts.
C13_ChainNeverEmpty == chain # {}

\* a peer sent the empty array, another a chain that was adopted
C13_Witness ==
    /\ IsResolve /\ Returned /\ last.result
    /\ \E i \in DOMAIN Candidates : Candidates[i] = {}
    /\ chain # last.chain
    /\ chain # {}

\* C14: the first block of the chain is a genesis block as new_with seeds it:
\* proof 100 and "Genesis block." as previous_hash.
C14_FirstBlockIsGenesis ==
    LET first == ChainSeq(chain)[1]
    IN  first.proof = GenesisProof /\ first.previous_hash = GenesisMessage

\* C15: the indices of the blocks of the chain are pairwise distinct, and strictly
\* increasing in the order of the chain.
C15_IndicesStrictlyIncreasing ==
    LET s == ChainSeq(chain)
    IN  \A i, j \in DOMAIN s : i < j => s[i].index < s[j].index

\* C16: a mine that returns has made the chain one block longer; the new block
\* has the length of the chain before the call plus one as index, is the last
\* block of the chain, and is the block whose reference mine returns.
C16_MineAppendsAndReturnsNewBlock ==
    (last.op = "mine" /\ Returned) =>
        /\ Cardinality(chain) = Cardinality(last.chain) + 1
        /\ last.arg.index = Cardinality(last.chain) + 1
        /\ last_block(chain) = last.arg
        /\ last.result = last.arg

\* the bodies of the call, in the orders the peer set may be iterated in
Reorderings(bodies) ==
    {[i \in DOMAIN bodies |-> bodies[o[i]]] : o \in Orders(DOMAIN bodies)}

\* the chain resolve_conflicts leaves when it scans these bodies in this order
ChainAfterScan(bodies) ==
    LET best == resolve_scan(deserialize(bodies), 1, Cardinality(last.chain),
                             [some |-> FALSE, chain |-> {}], difficulty)
    IN  IF best.some THEN best.chain ELSE last.chain

\* C17: the chain resolve_conflicts leaves is fixed by the ledger it is called on
\* and by what each peer answers: it is the same in whatever order the peer set
\* is iterated.
C17_SameChainInEveryOrder ==
    (IsResolve /\ Returned) =>
        \A bodies \in Reorderings(last.arg) : ChainAfterScan(bodies) = chain

\* C18: new_transaction leaves the chain, the peer set and the difficulty as they
\* are; the buffer afterwards is the buffer before with the transaction added,
\* which is the buffer before when an equal transaction was pending; and no step
\* of any operation changes the difficulty.
C18_NewTransactionOnlyBuffers ==
    [][/\ difficulty' = difficulty
       /\ last'.op = "new_transaction" =>
             /\ chain' = chain
             /\ nodes' = nodes
             /\ current_transactions' = current_transactions \cup {last'.arg}
             /\ last'.arg \in current_transactions =>
                   current_transactions' = current_transactions]_vars

\* a transaction equal to one of the two pending ones was submitted
C18_Witness ==
    /\ last.op = "new_transaction"
    /\ last.buffer = {TxnA, MiningReward}
    /\ last.arg = TxnA
    /\ current_transactions = last.buffer
    /\ chain = last.chain /\ nodes = last.nodes

\* C19: the chain of the ledger passes valid_chain at the difficulty of the
\* ledger in every state, also after mining on a chain taken from a peer.
C19_OwnChainIsValid == valid_chain(chain, difficulty)

\* C20: no step makes the chain shorter: new_transaction and register_node keep
\* its length, a mine that returns adds one, and resolve_conflicts keeps it (when
\* it returns false) or makes it greater (when it returns true).
C20_LengthNeverDecreases ==
    [][/\ Cardinality(chain') >= Cardinality(chain)
       /\ last'.op \in {"new_transaction", "register_node"} =>
             Cardinality(chain') = Cardinality(chain)
       /\ (last'.op = "mine" /\ last'.outcome = "ok") =>
             Cardinality(chain') = Cardinality(chain) + 1
       /\ (last'.op = "resolve_conflicts" /\ last'.outcome = "ok") =>
             IF last'.result THEN Cardinality(chain') > Cardinality(chain)
             ELSE Cardinality(chain') = Cardinality(chain)]_vars

\* resolve_conflicts has taken a chain two blocks longer, offered next to a
\* shorter one
C20_Witness ==
    /\ IsResolve /\ Returned /\ last.result
    /\ Cardinality(chain) = Cardinality(last.chain) + 2
    /\ \E i \in DOMAIN Candidates : Cardinality(Candidates[i]) < Cardinality(last.chain)

\* C21: a resolve_conflicts step, whether or not it replaces the chain, leaves
\* the buffer of pending transactions, the peer set and the difficulty as they
\* were before the call.
C21_ResolveOnlyChangesChain ==
    [][last'.op = "resolve_conflicts" =>
          /\ current_transactions' = current_transactions
          /\ nodes' = nodes
          /\ difficulty' = difficulty]_vars

\* a chain was adopted that holds a transaction equal to a pending one, which is
\* still pending
C21_Witness ==
    /\ IsResolve /\ Returned /\ last.result
    /\ chain # last.chain
    /\ \E txn \in last.buffer : \E block \in chain : txn \in block.transactions
    /\ current_transactions = last.buffer
    /\ nodes = last.nodes

====
